---- MODULE Spec2Model ----
(***************************************************************************)
(* Model of streamlit_dashboard.py: the memoized loader                    *)
(* load_dashboard_data, the top-level script main with its two sidebar     *)
(* selectboxes and its if/elif dispatch, and the four view routines.       *)
(*                                                                         *)
(* One run of main (a "render") is one action.  The files under            *)
(* ./dashboard_data and compare.png are the environment: they can change   *)
(* between renders.  Numbers read from the CSV files are kept in tenths    *)
(* (11600 stands for 1160.0), so that rounding is a real operation.        *)
(* Text cells are sequences of one-character strings.                      *)
(***************************************************************************)
EXTENDS Integers, Sequences, FiniteSets, TLC

VARIABLES disk, changes, cache, diskReads, loadedAt, data, last

vars == <<disk, changes, cache, diskReads, loadedAt, data, last>>

\* Number of times the files on disk may change during one process.
MaxDiskChanges == 2

-----------------------------------------------------------------------------
(* The files of the data contract                                          *)

WaterCsv == "water_extent_timeseries.csv"
SeasonalCsv == "seasonal_patterns.csv"
LakesCsv == "lake_comparison.csv"
MetricsJson == "metrics.json"
InsightsJson == "insights.json"
LonsNpy == "longitude_grid.npy"
LatsNpy == "latitude_grid.npy"
FreqNpy == "water_frequency_grid.npy"

\* The eight reads of load_dashboard_data, in the order it performs them.
ReadOrder ==
    <<WaterCsv, SeasonalCsv, LakesCsv, MetricsJson, InsightsJson,
      LonsNpy, LatsNpy, FreqNpy>>

DataFiles == {ReadOrder[i] : i \in 1..Len(ReadOrder)}

NpyFiles == {LonsNpy, LatsNpy, FreqNpy}

\* "ok": parses and has the fields the views index.
\* "missing": open raises.  "corrupt": the parser raises.
\* "fields_missing": parses, but lacks the columns / keys the views index
\*   (pd.read_csv and json.load do not look at column or key names).
FileStatus(f) ==
    IF f \in NpyFiles THEN {"ok", "missing", "corrupt"}
    ELSE {"ok", "missing", "corrupt", "fields_missing"}

\* Shapes a 2D grid file can have.
GridShapes == {<<2, 2>>, <<2, 3>>}

-----------------------------------------------------------------------------
(* File contents                                                           *)

WaterRows ==
    << [year |-> 2020, water_extent_km2 |-> 30000, change_percent |-> 0],
       [year |-> 2021, water_extent_km2 |-> 30500, change_percent |-> 17],
       [year |-> 2024, water_extent_km2 |-> 30680, change_percent |-> -1] >>

SeasonalTables ==
    { << [year |-> 2023, month |-> 9, water_frequency |-> 8],
         [year |-> 2024, month |-> 6, water_frequency |-> 3],
         [year |-> 2024, month |-> 9, water_frequency |-> 9] >>,
      << [year |-> 2024, month |-> 1, water_frequency |-> 5] >> }

\* A lake_comparison.csv as pandas reads it: the rows and the dtype pandas
\* infers for column change (int64 when no cell has a decimal point).
LakeTables ==
    { [change_dtype |-> "float64", rows |->
        << [name |-> "Lake Abaya", area_2020 |-> 11600, area_2024 |-> 11400,
            change |-> -17, trend |-> "declining"] >>],
      [change_dtype |-> "float64", rows |->
        << [name |-> "Lake Tana", area_2020 |-> 30005, area_2024 |-> 30685,
            change |-> 22, trend |-> "stable"],
           [name |-> "Lake Chamo", area_2020 |-> 3175, area_2024 |-> 9995,
            change |-> 2148, trend |-> "increasing"],
           [name |-> "Lake Abaya", area_2020 |-> 12345678, area_2024 |-> 4,
            change |-> -1000, trend |-> "declining"] >>],
      [change_dtype |-> "int64", rows |->
        << [name |-> "Lake Chamo", area_2020 |-> 3170, area_2024 |-> 0,
            change |-> -1000, trend |-> "declining"],
           [name |-> "Lake Tana", area_2020 |-> -4, area_2024 |-> 25,
            change |-> 20, trend |-> "stable"] >>] }

MetricsValues ==
    [current_water_extent |-> 30680, peak_water_extent |-> 31560,
     percent_decline_since_1960 |-> 28, annual_change_rate |-> 4,
     population_impacted |-> 15000000,
     economic_impact_million_usd |-> 450]

InsightsValues ==
    [key_findings |-> <<"f1", "f2">>,
     management_recommendations |-> <<"r1">>,
     primary_causes |-> <<"c1">>,
     de_africa_advantages |-> <<"a1">>]

\* Disk states on which every file is present and well formed: each lake
\* table, with a seasonal table that has rows of other years exactly when
\* the lake table has more than one row.
GoodDisks ==
    { [status |-> [f \in DataFiles |-> "ok"],
       shape |-> [f \in NpyFiles |-> <<2, 2>>],
       lakes |-> t,
       seasonal |-> CHOOSE s \in SeasonalTables :
                        (Len(s) > 1) <=> (Len(t.rows) > 1),
       image |-> TRUE] : t \in LakeTables }

\* The good disk holding the one-row lake table of the Lake Abaya example.
ReferenceDisk == CHOOSE d \in GoodDisks : Len(d.lakes.rows) = 1

\* No data file exists yet; compare.png ships with the script.
NothingGenerated ==
    [ReferenceDisk EXCEPT !.status = [f \in DataFiles |-> "missing"]]

\* The disk states that differ from d in one file.
OneFileChanged(d) ==
    UNION {{[d EXCEPT !.status[f] = s] : s \in FileStatus(f)} : f \in DataFiles}
    \cup {[d EXCEPT !.shape[f] = sh] : f \in NpyFiles, sh \in GridShapes}
    \cup {[d EXCEPT !.lakes = t] : t \in LakeTables}
    \cup {[d EXCEPT !.seasonal = s] : s \in SeasonalTables}
    \cup {[d EXCEPT !.image = b] : b \in BOOLEAN}

-----------------------------------------------------------------------------
(* load_dashboard_data                                                     *)

None == [isNone |-> TRUE]

\* A read raises when the file is absent or does not parse.
ReadRaises(d, f) == d.status[f] \in {"missing", "corrupt"}

\* FirstFailure with the try block ending after the three read_csv calls.
FirstFailureCsvOnly(d) ==
    IF \E i \in 1..3 : ReadRaises(d, ReadOrder[i])
    THEN CHOOSE i \in 1..3 :
            /\ ReadRaises(d, ReadOrder[i])
            /\ \A j \in 1..(i - 1) : ~ReadRaises(d, ReadOrder[j])
    ELSE 0

\* Position in ReadOrder of the first read that raises, 0 if none does.
FirstFailure(d) ==
    IF \E i \in 1..Len(ReadOrder) : ReadRaises(d, ReadOrder[i])
    THEN CHOOSE i \in 1..Len(ReadOrder) :
            /\ ReadRaises(d, ReadOrder[i])
            /\ \A j \in 1..(i - 1) : ~ReadRaises(d, ReadOrder[j])
    ELSE 0

\* pd.read_csv / json.load of a file that parses: the object it yields.
\* has_fields is FALSE when the columns / keys the views index are absent.
ReadTable(d, f, rows) ==
    IF d.status[f] = "ok" THEN [has_fields |-> TRUE, rows |-> rows]
    ELSE [has_fields |-> FALSE, rows |-> <<>>]

ReadLakes(d) ==
    IF d.status[LakesCsv] = "ok"
    THEN [has_fields |-> TRUE, change_dtype |-> d.lakes.change_dtype,
          rows |-> d.lakes.rows]
    ELSE [has_fields |-> FALSE, change_dtype |-> "object", rows |-> <<>>]

ReadJson(d, f, values) ==
    IF d.status[f] = "ok" THEN [has_fields |-> TRUE, values |-> values]
    ELSE [has_fields |-> FALSE, values |-> <<>>]

\* The dict built by the return statement of the try block.
Bundle(d) ==
    [water_timeseries |-> ReadTable(d, WaterCsv, WaterRows),
     seasonal_data |-> ReadTable(d, SeasonalCsv, d.seasonal),
     lake_comparison |-> ReadLakes(d),
     metrics |-> ReadJson(d, MetricsJson, MetricsValues),
     insights |-> ReadJson(d, InsightsJson, InsightsValues),
     spatial_grid |-> [lons |-> d.shape[LonsNpy], lats |-> d.shape[LatsNpy],
                       water_freq |-> d.shape[FreqNpy]]]

\* The body of load_dashboard_data on disk state d: the returned value and
\* the st elements it writes (the message names the read that raised).
LoadBody(d) ==
    IF FirstFailure(d) = 0
    THEN [value |-> Bundle(d), elements |-> <<>>]
    ELSE [value |-> None,
          elements |-> << [kind |-> "error", text |-> "Error loading data",
                           data |-> <<ReadOrder[FirstFailure(d)]>>] >>]

EmptyCache == [filled |-> FALSE, value |-> None, elements |-> <<>>]

\* load_dashboard_data without the decorator: the body runs on every call.
load_uncached(c, d) ==
    [cache |-> [filled |-> TRUE, value |-> LoadBody(d).value,
                elements |-> LoadBody(d).elements],
     value |-> LoadBody(d).value, elements |-> LoadBody(d).elements,
     ran |-> TRUE]

\* load_dashboard_data with a cache that does not keep a None result.
load_not_caching_none(c, d) ==
    IF c.filled
    THEN [cache |-> c, value |-> c.value, elements |-> c.elements,
          ran |-> FALSE]
    ELSE [cache |-> IF LoadBody(d).value = None THEN c
                    ELSE [filled |-> TRUE, value |-> LoadBody(d).value,
                          elements |-> LoadBody(d).elements],
          value |-> LoadBody(d).value, elements |-> LoadBody(d).elements,
          ran |-> TRUE]

\* A call of the st.cache_data-wrapped function with cache c and disk d:
\* on a miss the body runs and its result (value and st elements) is
\* stored; on a hit the stored result is returned and its elements are
\* replayed, the disk is not touched.  The function takes no arguments,
\* so there is one cache entry.
load_dashboard_data(c, d) ==
    IF c.filled
    THEN [cache |-> c, value |-> c.value, elements |-> c.elements,
          ran |-> FALSE]
    ELSE [cache |-> [filled |-> TRUE, value |-> LoadBody(d).value,
                     elements |-> LoadBody(d).elements],
          value |-> LoadBody(d).value, elements |-> LoadBody(d).elements,
          ran |-> TRUE]

-----------------------------------------------------------------------------
(* Python string formatting of numbers (values in tenths)                  *)

Digits == <<"0", "1", "2", "3", "4", "5", "6", "7", "8", "9">>

Abs(x) == IF x < 0 THEN -x ELSE x

RECURSIVE NatChars(_)
\* Decimal digits of a natural number.
NatChars(n) ==
    IF n < 10 THEN <<Digits[n + 1]>>
    ELSE NatChars(n \div 10) \o <<Digits[(n % 10) + 1]>>

RECURSIVE GroupThousands(_)
\* The "," option of the format mini-language: a comma every three digits,
\* counted from the right.
GroupThousands(ds) ==
    IF Len(ds) <= 3 THEN ds
    ELSE GroupThousands(SubSeq(ds, 1, Len(ds) - 3))
         \o <<",">> \o SubSeq(ds, Len(ds) - 2, Len(ds))

\* Precision 0 of format type f on a non-negative value of m tenths:
\* correctly rounded, an exact half goes to the even neighbour.
RoundTenths(m) ==
    LET q == m \div 10
        r == m % 10
    IN  IF r < 5 THEN q
        ELSE IF r > 5 THEN q + 1
        ELSE IF q % 2 = 0 THEN q ELSE q + 1

\* f"{x:,.0f}" for x of t tenths; the sign of x is kept ("-0" for -0.4).
FormatThousands(t) ==
    (IF t < 0 THEN <<"-">> ELSE <<>>)
    \o GroupThousands(NatChars(RoundTenths(Abs(t))))

\* str(x) of a float64 x of t tenths: shortest repr, always with a
\* fractional part ("2.0").
FloatStr(t) ==
    (IF t < 0 THEN <<"-">> ELSE <<>>)
    \o NatChars(Abs(t) \div 10) \o <<".">> \o <<Digits[(Abs(t) % 10) + 1]>>

\* str(x) of an int64 x (t tenths, t a multiple of ten).
IntStr(t) ==
    (IF t < 0 THEN <<"-">> ELSE <<>>) \o NatChars(Abs(t) \div 10)

\* FormatArea with format spec ".0f": the "," option forgotten.
FormatAreaNoComma(t) ==
    (IF t < 0 THEN <<"-">> ELSE <<>>) \o NatChars(RoundTenths(Abs(t)))
    \o <<" ", "k", "m", "²">>

\* lambda x: f"{x:,.0f} km²"
FormatArea(t) == FormatThousands(t) \o <<" ", "k", "m", "²">>

\* lambda x: f"{x}%", x an element of a column of the given dtype
FormatChange(t, dtype) ==
    (IF dtype = "int64" THEN IntStr(t) ELSE FloatStr(t)) \o <<"%">>

-----------------------------------------------------------------------------
(* Rendering                                                               *)

\* One st element: its kind, its fixed text and the data it shows.
El(kind, text, payload) == [kind |-> kind, text |-> text, data |-> payload]

\* A statement that writes element el, or raises when ok is FALSE.
Step(ok, el) == [ok |-> ok, el |-> el]

\* Runs the statements in order up to the first one that raises.
RunSteps(steps) ==
    LET bad == {i \in 1..Len(steps) : ~steps[i].ok}
        n == IF bad = {} THEN Len(steps)
             ELSE (CHOOSE i \in bad : \A j \in bad : i <= j) - 1
    IN  [elements |-> [i \in 1..n |-> steps[i].el], raised |-> bad # {}]

\* metrics[key]
MetricOf(metrics, key) ==
    IF metrics.has_fields THEN <<key, metrics.values[key]>> ELSE <<key>>

\* show_overview: image is whether compare.png can be opened.  st.image
\* raises on a path that cannot be opened, px.line on a frame without the
\* named columns, metrics[...] on an absent key.
show_overview(bundle, image) ==
    LET ts == bundle.water_timeseries
        m == bundle.metrics
        r == RunSteps(<<
            Step(TRUE, El("columns", "2:1", <<>>)),
            Step(TRUE, El("subheader", "Lake Tana Water Monitoring", <<>>)),
            Step(image, El("image", "compare.png", <<>>)),
            Step(TRUE, El("subheader", "Water Extent Trend (2020-2024)", <<>>)),
            Step(ts.has_fields,
                 El("plotly_chart", "Annual Water Extent", ts.rows)),
            Step(TRUE, El("subheader", "Key Metrics", <<>>)),
            Step(TRUE, El("columns", "2", <<>>)),
            Step(m.has_fields, El("metric", "Current Water Area",
                                  MetricOf(m, "current_water_extent"))),
            Step(m.has_fields, El("metric", "Historical Peak",
                                  MetricOf(m, "peak_water_extent"))),
            Step(m.has_fields, El("metric", "Historical Change",
                                  MetricOf(m, "percent_decline_since_1960"))),
            Step(m.has_fields, El("metric", "Annual Change Rate",
                                  MetricOf(m, "annual_change_rate"))),
            Step(m.has_fields, El("metric", "Population Impacted",
                                  MetricOf(m, "population_impacted"))),
            Step(m.has_fields, El("metric", "Economic Impact",
                                  MetricOf(m, "economic_impact_million_usd"))),
            Step(TRUE, El("subheader", "Recent Alerts", <<>>)),
            Step(TRUE, El("markdown", "alert-info", <<>>)),
            Step(TRUE, El("markdown", "alert-warning", <<>>)) >>)
    IN  [elements |-> r.elements, raised |-> r.raised, data |-> bundle]

Is2024(row) == row.year = 2024

\* data['seasonal_data'][data['seasonal_data']['year'] == 2024]: a new frame
seasonal_2024(bundle) == SelectSeq(bundle.seasonal_data.rows, Is2024)

\* The statements of show_time_series; the third tab is created and never
\* entered.  Indexing a frame by an absent column raises.
time_series_steps(bundle) ==
    LET ts == bundle.water_timeseries
        se == bundle.seasonal_data
    IN  RunSteps(<<
            Step(TRUE, El("subheader", "Detailed Time Series Analysis", <<>>)),
            Step(TRUE, El("tabs", "Annual Trends|Seasonal Patterns|Statistical Analysis", <<>>)),
            Step(TRUE, El("columns", "2:1", <<>>)),
            Step(ts.has_fields,
                 El("plotly_chart",
                    "Water Extent with Annual Change Percentage", ts.rows)),
            Step(TRUE, El("subheader", "Trend Analysis", <<>>)),
            Step(TRUE, El("metric", "5-Year Change", <<"+2.2%">>)),
            Step(TRUE, El("metric", "Average Annual Change", <<"+0.4%">>)),
            Step(TRUE, El("metric", "Stability Index", <<"High">>)),
            Step(se.has_fields,
                 El("plotly_chart", "Seasonal Water Frequency Pattern (2024)",
                    seasonal_2024(bundle))),
            Step(TRUE, El("columns", "2", <<>>)),
            Step(TRUE, El("metric", "Peak Season", <<"September">>)),
            Step(TRUE, El("metric", "Lowest Season", <<"June">>)) >>)

\* show_time_series with the filtered frame assigned back into the bundle
\* (data['seasonal_data'] = data['seasonal_data'][...]).
show_time_series_in_place(bundle) ==
    [elements |-> time_series_steps(bundle).elements,
     raised |-> time_series_steps(bundle).raised,
     data |-> IF bundle.water_timeseries.has_fields
                 /\ bundle.seasonal_data.has_fields
              THEN [bundle EXCEPT !.seasonal_data.rows = seasonal_2024(bundle)]
              ELSE bundle]

\* show_time_series: the bundle is only read.
show_time_series(bundle) ==
    [elements |-> time_series_steps(bundle).elements,
     raised |-> time_series_steps(bundle).raised,
     data |-> bundle]

\* display_df after the three apply calls: a copy of the frame with the
\* three columns replaced by formatted text.
display_df(lakes) ==
    [i \in 1..Len(lakes.rows) |->
        [name |-> lakes.rows[i].name,
         area_2020 |-> FormatArea(lakes.rows[i].area_2020),
         area_2024 |-> FormatArea(lakes.rows[i].area_2024),
         change |-> FormatChange(lakes.rows[i].change, lakes.change_dtype),
         trend |-> lakes.rows[i].trend]]

\* show_regional_comparison: px.bar raises on a frame without the named
\* columns.
show_regional_comparison(bundle) ==
    LET lk == bundle.lake_comparison
        r == RunSteps(<<
            Step(TRUE, El("subheader", "Ethiopian Lakes Comparison", <<>>)),
            Step(lk.has_fields,
                 El("plotly_chart", "Water Extent Comparison (2020 vs 2024)",
                    lk.rows)),
            Step(lk.has_fields,
                 El("plotly_chart", "Percentage Change (2020-2024)", lk.rows)),
            Step(TRUE, El("subheader", "Detailed Comparison Table", <<>>)),
            Step(lk.has_fields, El("dataframe", "display_df", display_df(lk)))
            >>)
    IN  [elements |-> r.elements, raised |-> r.raised, data |-> bundle]

\* for item in insights[key]: write one element of the given kind
ListSteps(insights, key, kind) ==
    IF insights.has_fields
    THEN [i \in 1..Len(insights.values[key]) |->
            Step(TRUE, El(kind, insights.values[key][i], <<>>))]
    ELSE <<Step(FALSE, El(kind, key, <<>>))>>

\* show_management_insights
show_management_insights(bundle) ==
    LET ins == bundle.insights
        r == RunSteps(
            << Step(TRUE, El("columns", "2", <<>>)),
               Step(TRUE, El("subheader", "Key Findings", <<>>)) >>
            \o ListSteps(ins, "key_findings", "info")
            \o << Step(TRUE, El("subheader", "Management Recommendations", <<>>)) >>
            \o ListSteps(ins, "management_recommendations", "success")
            \o << Step(TRUE, El("subheader", "Primary Causes", <<>>)) >>
            \o ListSteps(ins, "primary_causes", "warning")
            \o << Step(TRUE, El("subheader", "DE Africa Advantages", <<>>)) >>
            \o ListSteps(ins, "de_africa_advantages", "markdown"))
    IN  [elements |-> r.elements, raised |-> r.raised, data |-> bundle]

-----------------------------------------------------------------------------
(* main                                                                    *)

ViewOptions ==
    <<"Overview", "Time Series Analysis", "Ethiopian Lakes Comparison",
      "Management Insights">>

RegionOptions ==
    <<"Lake Tana", "Lake Abaya", "Lake Chamo", "Comparative View">>

Views == {ViewOptions[i] : i \in 1..Len(ViewOptions)}

Regions == {RegionOptions[i] : i \in 1..Len(RegionOptions)}

Called(routine, result) ==
    [invoked |-> <<routine>>, elements |-> result.elements,
     raised |-> result.raised, data |-> result.data]

\* view_call with the selectbox label of the second branch misspelt: no
\* branch matches "Time Series Analysis".
view_call_label_typo(bundle, image, selected_view, selected_region) ==
    IF selected_view = "Overview"
    THEN Called("show_overview", show_overview(bundle, image))
    ELSE IF selected_view = "Time Series"
    THEN Called("show_time_series", show_time_series(bundle))
    ELSE IF selected_view = "Ethiopian Lakes Comparison"
    THEN Called("show_regional_comparison", show_regional_comparison(bundle))
    ELSE IF selected_view = "Management Insights"
    THEN Called("show_management_insights", show_management_insights(bundle))
    ELSE [invoked |-> <<>>, elements |-> <<>>, raised |-> FALSE,
          data |-> bundle]

\* view_call with the region wired in: "Comparative View" always shows the
\* lakes comparison.
view_call_by_region(bundle, image, selected_view, selected_region) ==
    IF selected_region = "Comparative View"
    THEN Called("show_regional_comparison", show_regional_comparison(bundle))
    ELSE IF selected_view = "Overview"
    THEN Called("show_overview", show_overview(bundle, image))
    ELSE IF selected_view = "Time Series Analysis"
    THEN Called("show_time_series", show_time_series(bundle))
    ELSE IF selected_view = "Ethiopian Lakes Comparison"
    THEN Called("show_regional_comparison", show_regional_comparison(bundle))
    ELSE Called("show_management_insights", show_management_insights(bundle))

\* The if / elif chain of main, with both selections in scope.
view_call(bundle, image, selected_view, selected_region) ==
    IF selected_view = "Overview"
    THEN Called("show_overview", show_overview(bundle, image))
    ELSE IF selected_view = "Time Series Analysis"
    THEN Called("show_time_series", show_time_series(bundle))
    ELSE IF selected_view = "Ethiopian Lakes Comparison"
    THEN Called("show_regional_comparison", show_regional_comparison(bundle))
    ELSE IF selected_view = "Management Insights"
    THEN Called("show_management_insights", show_management_insights(bundle))
    ELSE [invoked |-> <<>>, elements |-> <<>>, raised |-> FALSE,
          data |-> bundle]

Header ==
    << El("markdown", "main-header", <<>>),
       El("markdown", "Ethiopia's Largest Lake", <<>>) >>

Controls(selected_view, selected_region) ==
    << El("header", "Dashboard Controls", <<>>),
       El("selectbox", "Select View:", <<selected_view>>),
       El("selectbox", "Focus Region:", <<selected_region>>) >>

\* The three sidebar lines written after the view returns; the last one
\* carries the current date.
Footer ==
    << El("markdown", "---", <<>>),
       El("markdown", "Data Source", <<>>),
       El("markdown", "Last Updated", <<>>) >>

\* One run of main with cache c, disk d and the two selectbox values.
\* outcome: "load_error" (return after st.error), "completed" (footer
\* written), "uncaught" (a view raised: main has no handler, the exception
\* leaves main and the script).
main(c, d, selected_view, selected_region) ==
    LET ld == load_dashboard_data(c, d)
        vc == view_call(ld.value, d.image, selected_view, selected_region)
    IN  IF ld.value = None
        THEN [cache |-> ld.cache, ran |-> ld.ran, data |-> None,
              outcome |-> "load_error", invoked |-> <<>>,
              page |-> Header \o ld.elements
                       \o << El("error", "Please generate the dashboard data first", <<>>) >>,
              sidebar |-> <<>>]
        ELSE [cache |-> ld.cache, ran |-> ld.ran, data |-> vc.data,
              outcome |-> IF vc.raised THEN "uncaught" ELSE "completed",
              invoked |-> vc.invoked,
              page |-> Header \o ld.elements \o vc.elements,
              sidebar |-> Controls(selected_view, selected_region)
                          \o (IF vc.raised THEN <<>> ELSE Footer)]

-----------------------------------------------------------------------------
(* The process: script runs triggered by the user, files changed outside   *)

NoRender ==
    [view |-> ViewOptions[1], region |-> RegionOptions[1], at |-> 0,
     outcome |-> "none", ran |-> FALSE, invoked |-> <<>>, page |-> <<>>,
     sidebar |-> <<>>]

\* The disk states considered: the good ones, the reference one with one
\* file changed, and the directory before the data generation script ran.
Disks == GoodDisks \cup OneFileChanged(ReferenceDisk) \cup {NothingGenerated}

Init ==
    /\ disk \in Disks
    /\ changes = 0
    /\ cache = EmptyCache
    /\ diskReads = 0
    /\ loadedAt = None
    /\ data = None
    /\ last = NoRender

\* The script runs top to bottom with the given selectbox values.
\* last records the run: the selections, the number of disk changes so far,
\* whether the body of the loader ran, and what main did.
Render(selected_view, selected_region) ==
    \E m \in {main(cache, disk, selected_view, selected_region)} :
        /\ cache' = m.cache
        /\ diskReads' = diskReads + (IF m.ran THEN 1 ELSE 0)
        /\ loadedAt' = IF m.ran THEN m.cache.value ELSE loadedAt
        /\ data' = m.data
        /\ last' = [view |-> selected_view, region |-> selected_region,
                    at |-> changes, outcome |-> m.outcome,
                    ran |-> m.ran, invoked |-> m.invoked, page |-> m.page,
                    sidebar |-> m.sidebar]
        /\ UNCHANGED <<disk, changes>>

\* The selectboxes are on the page only when main got past the load check.
ControlsShown == Len(last.sidebar) > 0

\* First run of the script in the session: both selectboxes at index 0.
FirstRun ==
    /\ last.outcome = "none"
    /\ Render(ViewOptions[1], RegionOptions[1])

\* The user picks another view: the script reruns.
SelectView ==
    /\ ControlsShown
    /\ \E v \in Views \ {last.view} : Render(v, last.region)

\* The user picks another region: the script reruns.
SelectRegion ==
    /\ ControlsShown
    /\ \E r \in Regions \ {last.region} : Render(last.view, r)

\* The script reruns with the selections as they are (page reload).
Rerun ==
    /\ last.outcome # "none"
    /\ Render(last.view, last.region)

\* Between two runs of the script the files are replaced, removed or
\* restored, which leaves the disk in another of the states considered.
DiskChange ==
    /\ changes < MaxDiskChanges
    /\ disk' \in Disks \ {disk}
    /\ changes' = changes + 1
    /\ UNCHANGED <<cache, diskReads, loadedAt, data, last>>

Next == FirstRun \/ SelectView \/ SelectRegion \/ Rerun \/ DiskChange

Spec == Init /\ [][Next]_vars

-----------------------------------------------------------------------------
(* Properties                                                              *)

\* Positions on the last page of the elements of the given kinds.
Shown(kinds) == {i \in 1..Len(last.page) : last.page[i].kind \in kinds}

ShownNext(kinds) == {i \in 1..Len(last'.page) : last'.page[i].kind \in kinds}

DataWidgets == {"plotly_chart", "metric", "dataframe", "image"}

\* Some file read by the loader is absent or does not parse.
SomeFileUnreadable ==
    \E f \in DataFiles : disk.status[f] = "missing" \/ disk.status[f] = "corrupt"

\* The last run got past the load check.
PastLoad == last.outcome = "completed" \/ last.outcome = "uncaught"

\* C1: when the body of load_dashboard_data runs on a disk where a file it
\* reads is missing or does not parse, that render reports a load error,
\* calls none of the four view routines and writes no chart, metric, table
\* or image.
C1_LoadErrorHaltsRender ==
    [][(diskReads' = diskReads + 1 /\ SomeFileUnreadable)
        => /\ last'.outcome = "load_error"
           /\ last'.invoked = <<>>
           /\ ShownNext({"error"}) # {}
           /\ ShownNext(DataWidgets) = {}
           /\ data' = None]_vars

C1_Witness ==
    /\ last.ran
    /\ last.at = changes
    /\ SomeFileUnreadable
    /\ last.outcome = "load_error"

\* C2: every render that gets past the load check calls exactly one view
\* routine, the one that belongs to the selected view.
C2_ExactlyOneViewRoutine ==
    PastLoad =>
        /\ Len(last.invoked) = 1
        /\ last.view = "Overview" => last.invoked[1] = "show_overview"
        /\ last.view = "Time Series Analysis"
              => last.invoked[1] = "show_time_series"
        /\ last.view = "Ethiopian Lakes Comparison"
              => last.invoked[1] = "show_regional_comparison"
        /\ last.view = "Management Insights"
              => last.invoked[1] = "show_management_insights"
        /\ last.view \in Views

C2_Witness ==
    /\ last.outcome = "completed"
    /\ last.view = "Time Series Analysis"
    /\ last.invoked = <<"show_time_series">>

\* C3: a rerun that differs from the previous run only in the region
\* selection (same view, same cached bundle, same files) calls the same
\* view routine and writes the same page.
C3_RegionHasNoEffect ==
    [][(/\ PastLoad
        /\ last.at = changes
        /\ last'.view = last.view
        /\ last'.region # last.region)
        => /\ last'.invoked = last.invoked
           /\ last'.page = last.page
           /\ last'.outcome = last.outcome]_vars

\* The first run has the region at index 0, so another region on a
\* completed page means a region reselection has rerun the script.
C3_Witness ==
    /\ last.outcome = "completed"
    /\ last.region = "Comparative View"
    /\ last.view = "Overview"

\* C4: the files are read at most once per process, by the first call of
\* load_dashboard_data; once the cache is filled it never changes, no later
\* render reads the disk, and each later render works on the cached value.
C4_LoadMemoized ==
    [][/\ diskReads' # diskReads
          => (diskReads = 0 /\ diskReads' = 1 /\ last.outcome = "none")
       /\ cache.filled
          => /\ cache' = cache
             /\ diskReads' = diskReads
             /\ last' # last => (~last'.ran /\ data' = cache.value)]_vars

\* A render served from the cache although the files now on disk would
\* load to a different bundle.
C4_Witness ==
    /\ diskReads = 1
    /\ ~last.ran
    /\ last.at = changes
    /\ changes > 0
    /\ last.outcome = "completed"
    /\ ~SomeFileUnreadable
    /\ cache.value # Bundle(disk)

\* C5: after any sequence of renders the cached bundle and the bundle the
\* last render worked on equal the bundle as it was loaded.
C5_BundleNeverMutated ==
    (cache.filled /\ loadedAt # None) =>
        /\ cache.value = loadedAt
        /\ PastLoad => data = loadedAt

\* The comparison table was shown with formatted cells, and the bundle
\* holds more rows of seasonal data than the 2024 filter keeps.
C5_Witness ==
    /\ last.view = "Ethiopian Lakes Comparison"
    /\ last.outcome = "completed"
    /\ Shown({"dataframe"}) # {}
    /\ Len(data.lake_comparison.rows) > 1
    /\ Len(seasonal_2024(data)) < Len(data.seasonal_data.rows)

\* C6: a load whose three grid arrays differ in shape fails, so every
\* cached bundle has grids of one shape.
C6_ShapeMismatchFailsLoad ==
    (cache.filled /\ cache.value # None) =>
        /\ cache.value.spatial_grid.lons = cache.value.spatial_grid.lats
        /\ cache.value.spatial_grid.lats = cache.value.spatial_grid.water_freq

\* C7: a render ends completed or in the error display; an exception of a
\* view routine never leaves main uncaught.
C7_NoUncaughtException == last.outcome \in {"none", "completed", "load_error"}

\* The bundle has every field the views index.
ValidBundle(b) ==
    /\ b.water_timeseries.has_fields
    /\ b.seasonal_data.has_fields
    /\ b.lake_comparison.has_fields
    /\ b.metrics.has_fields
    /\ b.insights.has_fields

\* C8: with a valid bundle every render completes: the view returns and the
\* footer is written.
C8_ValidBundleRenders ==
    (PastLoad /\ ValidBundle(cache.value)) =>
        /\ last.outcome = "completed"
        /\ Shown(DataWidgets \cup {"info"}) # {}
        /\ Len(last.sidebar) = Len(Controls(last.view, last.region)) + Len(Footer)

-----------------------------------------------------------------------------
(* Reading a formatted cell back                                           *)

IsDigit(c) == \E i \in 1..10 : Digits[i] = c

DigitValue(c) == (CHOOSE i \in 1..10 : Digits[i] = c) - 1

RECURSIVE DigitsValue(_)
\* The number written by a sequence of digits, commas skipped.
DigitsValue(cs) ==
    IF cs = <<>> THEN 0
    ELSE IF cs[Len(cs)] = ","
    THEN DigitsValue(SubSeq(cs, 1, Len(cs) - 1))
    ELSE 10 * DigitsValue(SubSeq(cs, 1, Len(cs) - 1)) + DigitValue(cs[Len(cs)])

\* cs is a natural number with a comma before every group of three digits
\* and nowhere else, without leading zeros.
WellGrouped(cs) ==
    /\ Len(cs) >= 1
    /\ \A i \in 1..Len(cs) :
          IF (Len(cs) - i + 1) % 4 = 0 THEN cs[i] = "," ELSE IsDigit(cs[i])
    /\ (Len(cs) > 1 => cs[1] # "0")

Unsigned(cs) == IF cs # <<>> /\ cs[1] = "-" THEN Tail(cs) ELSE cs

Suffix(cs, n) == SubSeq(cs, Len(cs) - n + 1, Len(cs))

WithoutSuffix(cs, n) == SubSeq(cs, 1, Len(cs) - n)

\* cell is the value of t tenths, rounded to an integer, with thousands
\* separators, followed by " km²".
IsAreaCell(cell, t) ==
    /\ Len(cell) > 4
    /\ Suffix(cell, 4) = <<" ", "k", "m", "²">>
    /\ LET num == WithoutSuffix(cell, 4)
       IN  /\ (num[1] = "-") <=> (t < 0)
           /\ WellGrouped(Unsigned(num))
           /\ Abs(10 * DigitsValue(Unsigned(num)) - Abs(t)) <= 5

\* The tenths written by a decimal numeral with at most one fractional
\* digit, -1 if cs is no such numeral.
NumeralTenths(cs) ==
    IF Len(cs) >= 3 /\ cs[Len(cs) - 1] = "."
    THEN IF IsDigit(cs[Len(cs)])
            /\ \A i \in 1..(Len(cs) - 2) : IsDigit(cs[i])
         THEN 10 * DigitsValue(SubSeq(cs, 1, Len(cs) - 2))
              + DigitValue(cs[Len(cs)])
         ELSE -1
    ELSE IF cs # <<>> /\ \A i \in 1..Len(cs) : IsDigit(cs[i])
         THEN 10 * DigitsValue(cs)
         ELSE -1

\* cell is the value of t tenths followed by "%".
IsChangeCell(cell, t) ==
    /\ Len(cell) > 1
    /\ cell[Len(cell)] = "%"
    /\ LET num == WithoutSuffix(cell, 1)
       IN  /\ (num[1] = "-") <=> (t < 0)
           /\ NumeralTenths(Unsigned(num)) = Abs(t)

\* The table shown by the last render, <<>> if none was shown.
ShownTable ==
    IF Shown({"dataframe"}) = {} THEN <<>>
    ELSE last.page[CHOOSE i \in Shown({"dataframe"}) : TRUE].data

\* C9: the comparison table has one row per row of lake_comparison, in the
\* same order, with name and trend unchanged, each area cell the rounded
\* area with thousands separators and " km²", each change cell the change
\* followed by "%"; 1160, 1140 and -1.7 show as "1,160 km²", "1,140 km²"
\* and "-1.7%".
C9_ComparisonTableFormat ==
    (last.view = "Ethiopian Lakes Comparison" /\ last.outcome = "completed") =>
        LET rows == cache.value.lake_comparison.rows
        IN  /\ Cardinality(Shown({"dataframe"})) = 1
            /\ Len(ShownTable) = Len(rows)
            /\ \A i \in 1..Len(rows) :
                  /\ ShownTable[i].name = rows[i].name
                  /\ ShownTable[i].trend = rows[i].trend
                  /\ IsAreaCell(ShownTable[i].area_2020, rows[i].area_2020)
                  /\ IsAreaCell(ShownTable[i].area_2024, rows[i].area_2024)
                  /\ IsChangeCell(ShownTable[i].change, rows[i].change)
                  /\ rows[i].area_2020 = 11600
                        => ShownTable[i].area_2020
                           = <<"1", ",", "1", "6", "0", " ", "k", "m", "²">>
                  /\ rows[i].area_2024 = 11400
                        => ShownTable[i].area_2024
                           = <<"1", ",", "1", "4", "0", " ", "k", "m", "²">>
                  /\ (rows[i].change = -17
                      /\ cache.value.lake_comparison.change_dtype = "float64")
                        => ShownTable[i].change = <<"-", "1", ".", "7", "%">>

\* The Lake Abaya row of the example is on the page.
C9_Witness ==
    /\ last.view = "Ethiopian Lakes Comparison"
    /\ last.outcome = "completed"
    /\ \E i \in 1..Len(ShownTable) :
          /\ ShownTable[i].name = "Lake Abaya"
          /\ ShownTable[i].area_2020 = <<"1", ",", "1", "6", "0", " ", "k", "m", "²">>
          /\ ShownTable[i].change = <<"-", "1", ".", "7", "%">>

\* C10: once a render has ended in the load error, the cache holds None
\* and keeps it, the disk is not read again, whatever the files become, and
\* every later render stops at the load check, with no sidebar control,
\* view call or footer.
C10_FailedLoadMemoized ==
    [][last.outcome = "load_error"
        => /\ cache.filled /\ cache.value = None
           /\ cache' = cache
           /\ diskReads' = diskReads
           /\ last'.outcome = "load_error"
           /\ last'.invoked = <<>>
           /\ last'.sidebar = <<>>
           /\ ShownNext(DataWidgets) = {}]_vars

\* A rerun after the files were repaired still ends in the load error.
C10_Witness ==
    /\ cache.filled
    /\ cache.value = None
    /\ ~SomeFileUnreadable
    /\ changes > 0
    /\ last.at = changes
    /\ ~last.ran
    /\ last.outcome = "load_error"

====
